---- MODULE Spec2Model ----
(***************************************************************************)
(* A model of src/app.py: the transcript-to-audio converter.               *)
(*                                                                         *)
(* Python strings are modelled as sequences of one-character strings and   *)
(* byte strings as sequences of integers in 0..255.  The pure functions of *)
(* the program (chunk_text, merge_audio_chunks, format_transcript_to_text  *)
(* and its helpers) are operators computed the way the code computes them; *)
(* the button handler of main() is a state machine whose steps are         *)
(* separated by the responses of the synthesis service.                    *)
(***************************************************************************)
EXTENDS Integers, Sequences, FiniteSets, TLC

VARIABLES
    pc,              \* position of the operation under way
    text,            \* chunk_text: argument text
    max_chars,       \* chunk_text: argument max_chars
    chunks,          \* chunk_text: returned list
    segments,        \* merge_audio_chunks: argument audio_chunks
    merged,          \* merge_audio_chunks: returned bytes
    transcripts_str, \* format_transcript_to_text: argument
    formatted,       \* format_transcript_to_text: [raised, value]
    api_key,         \* main: the API key field of the sidebar
    transcript,      \* main: the transcript text area
    text_chunks,     \* main: local text_chunks
    audio_chunks,    \* main: local audio_chunks
    audio_data,      \* main: local audio_data, given to the player
    ui,              \* main: what the page has shown, in order
    called,          \* history: the functions of the program main has called
    posted,          \* history: the requests.post calls, [i, text], in order
    responses        \* history: what each call returned, [status, content]

chunkVars == <<text, max_chars, chunks>>
mergeVars == <<segments, merged>>
formatVars == <<transcripts_str, formatted>>
mainVars == <<api_key, transcript, text_chunks, audio_chunks, audio_data, ui,
              called, posted, responses>>
vars == <<pc, chunkVars, mergeVars, formatVars, mainVars>>

(***************************************************************************)
(* Characters and the string primitives of Python used by the program.     *)
(***************************************************************************)

\* Python's str.isspace / regex \s, restricted to the characters modelled.
IsSpace(c) == c \in {" ", "\n", "\t"}

\* The characters of the regex class [.!?].
IsTerminal(c) == c \in {".", "!", "?"}

\* The index of the first position >= i of s that does not hold a
\* whitespace character (Len(s) + 1 when there is none): a greedy \s*.
RECURSIVE SkipSpaces(_, _)
SkipSpaces(s, i) ==
    IF i <= Len(s) /\ IsSpace(s[i]) THEN SkipSpaces(s, i + 1) ELSE i

\* The index of the last position <= i of s that does not hold a whitespace
\* character (0 when there is none).
RECURSIVE SkipSpacesBack(_, _)
SkipSpacesBack(s, i) ==
    IF i >= 1 /\ IsSpace(s[i]) THEN SkipSpacesBack(s, i - 1) ELSE i

\* str.strip()
Strip(s) == SubSeq(s, SkipSpaces(s, 1), SkipSpacesBack(s, Len(s)))

\* The index of the first whitespace character of s at or after i
\* (Len(s) + 1 when there is none).
RECURSIVE SkipNonSpaces(_, _)
SkipNonSpaces(s, i) ==
    IF i <= Len(s) /\ ~IsSpace(s[i]) THEN SkipNonSpaces(s, i + 1) ELSE i

\* str.split(): the maximal runs of non-whitespace characters, in order.
RECURSIVE SplitWordsFrom(_, _)
SplitWordsFrom(s, i) ==
    LET b == SkipSpaces(s, i)
        e == SkipNonSpaces(s, b)
    IN  IF b > Len(s) THEN <<>>
        ELSE <<SubSeq(s, b, e - 1)>> \o SplitWordsFrom(s, e)

SplitWords(s) == SplitWordsFrom(s, 1)

\* re.split(r'(?<=[.!?])\s+', s): a separator is a maximal whitespace run
\* whose preceding character is one of . ! ?; `from` is the start of the
\* piece being scanned and i the scanning position.
RECURSIVE SplitSentencesFrom(_, _, _)
SplitSentencesFrom(s, from, i) ==
    IF i > Len(s) THEN <<SubSeq(s, from, Len(s))>>
    ELSE IF IsSpace(s[i]) /\ i > 1 /\ IsTerminal(s[i - 1])
         THEN LET e == SkipSpaces(s, i)
              IN  <<SubSeq(s, from, i - 1)>> \o SplitSentencesFrom(s, e, e)
         ELSE SplitSentencesFrom(s, from, i + 1)

SplitSentences(s) == SplitSentencesFrom(s, 1, 1)

\* sep.join(parts)
RECURSIVE Join(_, _)
Join(sep, parts) ==
    IF parts = <<>> THEN <<>>
    ELSE IF Len(parts) = 1 THEN parts[1]
    ELSE parts[1] \o sep \o Join(sep, Tail(parts))

(***************************************************************************)
(* chunk_text (src/app.py lines 42-78).                                    *)
(***************************************************************************)

\* word[:max_chars], with a slice that loses the last character kept.
TruncateShort(word, n) == SubSeq(word, 1, n - 1)

\* word[:max_chars] for max_chars >= 0 (line 69).
Truncate(word, n) == SubSeq(word, 1, n)

\* current_chunk += " " + piece if current_chunk else piece (lines 71, 73).
Accumulate(current_chunk, piece) ==
    IF current_chunk # <<>> THEN current_chunk \o <<" ">> \o piece ELSE piece

\* The loop over the words of one over-long sentence (lines 62-71), from
\* word i on; st is [chunks, current_chunk].
RECURSIVE WordLoop(_, _, _, _)
WordLoop(words, i, st, n) ==
    IF i > Len(words) THEN st
    ELSE LET word == words[i]
         IN  IF Len(st.current_chunk) + Len(word) + 1 > n
             THEN IF st.current_chunk # <<>>
                  THEN WordLoop(words, i + 1,
                           [chunks |-> Append(st.chunks, Strip(st.current_chunk)),
                            current_chunk |-> word], n)
                  ELSE WordLoop(words, i + 1,
                           [chunks |-> Append(st.chunks, Truncate(word, n)),
                            current_chunk |-> st.current_chunk], n)
             ELSE WordLoop(words, i + 1,
                      [chunks |-> st.chunks,
                       current_chunk |-> Accumulate(st.current_chunk, word)], n)

\* The loop over the sentences (lines 53-73), from sentence i on.
RECURSIVE SentenceLoop(_, _, _, _)
SentenceLoop(sentences, i, st, n) ==
    IF i > Len(sentences) THEN st
    ELSE LET sentence == sentences[i]
         IN  IF Len(st.current_chunk) + Len(sentence) + 1 > n
             THEN IF st.current_chunk # <<>>
                  THEN SentenceLoop(sentences, i + 1,
                           [chunks |-> Append(st.chunks, Strip(st.current_chunk)),
                            current_chunk |-> sentence], n)
                  ELSE SentenceLoop(sentences, i + 1,
                           WordLoop(SplitWords(sentence), 1, st, n), n)
             ELSE SentenceLoop(sentences, i + 1,
                      [chunks |-> st.chunks,
                       current_chunk |-> Accumulate(st.current_chunk, sentence)], n)

\* Lines 75-78: the chunk left when the loop ends is the last one.
ChunkResult(st) ==
    IF st.current_chunk # <<>>
    THEN Append(st.chunks, Strip(st.current_chunk))
    ELSE st.chunks

chunk_text(t, n) ==
    IF Len(t) <= n THEN <<t>>
    ELSE ChunkResult(SentenceLoop(SplitSentences(t), 1,
                                  [chunks |-> <<>>, current_chunk |-> <<>>], n))

(***************************************************************************)
(* merge_audio_chunks (src/app.py lines 80-101).                           *)
(***************************************************************************)

\* The size of a WAV header, skipped in every chunk but the first.
HeaderSize == 44

\* chunk[44:] with the slice starting one byte early.
StripHeaderEarly(chunk) == SubSeq(chunk, HeaderSize, Len(chunk))

\* chunk[44:] (line 99).
StripHeader(chunk) == SubSeq(chunk, HeaderSize + 1, Len(chunk))

\* The loop of lines 92-99 over the list audio_chunks, from index i
\* (0-based, as enumerate counts).
RECURSIVE MergeLoop(_, _, _)
MergeLoop(list, i, merged_audio) ==
    IF i >= Len(list) THEN merged_audio
    ELSE LET chunk == list[i + 1]
         IN  IF i = 0
             THEN MergeLoop(list, i + 1, chunk)
             ELSE IF Len(chunk) > HeaderSize
                  THEN MergeLoop(list, i + 1,
                                 merged_audio \o StripHeader(chunk))
                  ELSE MergeLoop(list, i + 1, merged_audio)

merge_audio_chunks(list) ==
    IF list = <<>> THEN <<>>
    ELSE IF Len(list) = 1 THEN list[1]
    ELSE MergeLoop(list, 0, <<>>)

(***************************************************************************)
(* Character classes of Python's re module, for ASCII text.                *)
(***************************************************************************)
LowerLetters == <<"a", "b", "c", "d", "e", "f", "g", "h", "i", "j", "k", "l", "m", "n", "o", "p", "q", "r", "s", "t", "u", "v", "w", "x", "y", "z">>
UpperLetters == <<"A", "B", "C", "D", "E", "F", "G", "H", "I", "J", "K", "L", "M", "N", "O", "P", "Q", "R", "S", "T", "U", "V", "W", "X", "Y", "Z">>
Digits == <<"0", "1", "2", "3", "4", "5", "6", "7", "8", "9">>

InSeq(c, seq) == \E k \in 1..Len(seq) : seq[k] = c

\* s[i], or "" beyond the ends of s.
CharAt(s, i) == IF i >= 1 /\ i <= Len(s) THEN s[i] ELSE ""

IsDigit(c) == InSeq(c, Digits)
IsLetter(c) == InSeq(c, LowerLetters) \/ InSeq(c, UpperLetters)

\* \w
IsWordChar(c) == IsLetter(c) \/ IsDigit(c) \/ c = "_"

\* str.lower(), one character
LowerChar(c) ==
    IF InSeq(c, UpperLetters)
    THEN LowerLetters[CHOOSE k \in 1..Len(UpperLetters) : UpperLetters[k] = c]
    ELSE c

\* str.lower()
Lower(s) == [k \in 1..Len(s) |-> LowerChar(s[k])]

\* The end (exclusive) of the run of word characters, letters, digits of s
\* that starts at i: a greedy \w*, [a-z]*, \d*.
RECURSIVE SkipWordChars(_, _)
SkipWordChars(s, i) ==
    IF i <= Len(s) /\ IsWordChar(s[i]) THEN SkipWordChars(s, i + 1) ELSE i

RECURSIVE SkipLetters(_, _)
SkipLetters(s, i) ==
    IF i <= Len(s) /\ IsLetter(s[i]) THEN SkipLetters(s, i + 1) ELSE i

RECURSIVE SkipDigits(_, _)
SkipDigits(s, i) ==
    IF i <= Len(s) /\ IsDigit(s[i]) THEN SkipDigits(s, i + 1) ELSE i

\* The literal lit (lower case) stands in s at i; ci: re.IGNORECASE.
LitAt(s, i, lit, ci) ==
    /\ i >= 1
    /\ i + Len(lit) - 1 <= Len(s)
    /\ \A k \in 1..Len(lit) :
          (IF ci THEN LowerChar(s[i + k - 1]) ELSE s[i + k - 1]) = lit[k]

\* \b before position i, where s[i] is a word character.
BoundaryBefore(s, i) == i = 1 \/ ~IsWordChar(s[i - 1])

\* What the regexes of the program require right after an alternation that
\* ends before position e:
\*   "boundary"  \b            "space"        \s+
\*   "name"      \s+([A-Z][a-z]+) under IGNORECASE: two letters or more
\*   "word"      \s+(\w+)      "word3"        \s+(?=\w{3,})
Follows(kind, s, e) ==
    LET w == SkipSpaces(s, e)
    IN  CASE kind = "boundary" -> e > Len(s) \/ ~IsWordChar(s[e])
          [] kind = "space" -> e <= Len(s) /\ IsSpace(s[e])
          [] kind = "name" -> /\ e <= Len(s) /\ IsSpace(s[e])
                              /\ SkipLetters(s, w) >= w + 2
          [] kind = "word" -> /\ e <= Len(s) /\ IsSpace(s[e])
                              /\ SkipWordChars(s, w) >= w + 1
          [] kind = "word3" -> /\ e <= Len(s) /\ IsSpace(s[e])
                               /\ SkipWordChars(s, w) >= w + 3

\* (w1|w2|...) at position i followed by `kind`: the end (exclusive) of the
\* first alternative, in the order written, with which the rest of the
\* pattern matches; 0 when there is none.
RECURSIVE AltEndFrom(_, _, _, _, _, _)
AltEndFrom(s, i, alts, ci, kind, k) ==
    IF k > Len(alts) THEN 0
    ELSE IF LitAt(s, i, alts[k], ci) /\ Follows(kind, s, i + Len(alts[k]))
         THEN i + Len(alts[k])
         ELSE AltEndFrom(s, i, alts, ci, kind, k + 1)

AltEnd(s, i, alts, ci, kind) == AltEndFrom(s, i, alts, ci, kind, 1)

NoMatch == [end |-> 0, repl |-> <<>>]

(***************************************************************************)
(* The word lists of the regular expressions.                              *)
(***************************************************************************)
\* line 202
GreetingWords ==
    << <<"h", "i">>, <<"h", "e", "l", "l", "o">>, <<"h", "e", "y">>, <<"d", "e", "a", "r">>, <<"m", "r">>, <<"m", "r", "s">>, <<"m", "s">>, <<"d", "r">> >>
\* line 205
Conjunctions == << <<"a", "n", "d">>, <<"o", "r">> >>
\* line 208
IntroWords ==
    << <<"w", "e", "l", "l">>, <<"s", "o">>, <<"n", "o", "w">>, <<"t", "h", "e", "n">>, <<"a", "c", "t", "u", "a", "l", "l", "y">>, <<"b", "a", "s", "i", "c", "a", "l", "l", "y">>,
       <<"e", "s", "s", "e", "n", "t", "i", "a", "l", "l", "y">>, <<"h", "o", "w", "e", "v", "e", "r">>, <<"m", "e", "a", "n", "w", "h", "i", "l", "e">>, <<"f", "u", "r", "t", "h", "e", "r", "m", "o", "r", "e">>,
       <<"t", "h", "e", "r", "e", "f", "o", "r", "e">>, <<"m", "o", "r", "e", "o", "v", "e", "r">> >>
\* line 211
ContrastWords == << <<"b", "u", "t">>, <<"y", "e", "t">>, <<"s", "o">> >>
\* line 183
QuestionWords ==
    << <<"w", "h", "a", "t">>, <<"w", "h", "e", "n">>, <<"w", "h", "e", "r", "e">>, <<"w", "h", "y">>, <<"h", "o", "w">>, <<"w", "h", "o">>, <<"i", "s">>,
       <<"a", "r", "e">>, <<"d", "o">>, <<"d", "o", "e", "s">>, <<"d", "i", "d">>, <<"c", "a", "n">>, <<"c", "o", "u", "l", "d">>, <<"w", "o", "u", "l", "d">>,
       <<"w", "i", "l", "l">>, <<"s", "h", "o", "u", "l", "d">> >>
\* line 185
ExclamationWords ==
    << <<"w", "o", "w">>, <<"g", "r", "e", "a", "t">>, <<"a", "m", "a", "z", "i", "n", "g">>, <<"e", "x", "c", "e", "l", "l", "e", "n", "t">>, <<"f", "a", "n", "t", "a", "s", "t", "i", "c">>, <<"o", "h">>,
       <<"a", "h">>, <<"y", "e", "s">>, <<"n", "o">> >>
\* line 218
TransitionWords ==
    << <<"h", "o", "w", "e", "v", "e", "r">>, <<"t", "h", "e", "r", "e", "f", "o", "r", "e">>, <<"m", "e", "a", "n", "w", "h", "i", "l", "e">>, <<"f", "u", "r", "t", "h", "e", "r", "m", "o", "r", "e">>,
       <<"m", "o", "r", "e", "o", "v", "e", "r">>, <<"c", "o", "n", "s", "e", "q", "u", "e", "n", "t", "l", "y">>, <<"a", "d", "d", "i", "t", "i", "o", "n", "a", "l", "l", "y">>, <<"f", "i", "n", "a", "l", "l", "y">> >>
\* line 221
EmphasisWords ==
    << <<"i", "m", "p", "o", "r", "t", "a", "n", "t">>, <<"n", "o", "t", "e">>, <<"r", "e", "m", "e", "m", "b", "e", "r">>, <<"p", "l", "e", "a", "s", "e">>, <<"u", "n", "d", "e", "r", "s", "t", "a", "n", "d">> >>

(***************************************************************************)
(* One attempt of a regular expression at position i of s: the end         *)
(* (exclusive) of the match and its replacement, or NoMatch.               *)
(***************************************************************************)

\* r'\b(hi|hello|hey|dear|mr|mrs|ms|dr)\s+([A-Z][a-z]+)' -> r'\1, \2',
\* IGNORECASE (line 202); e: the end of the greeting word, 0 without match.
GreetingAt(s, i, e) ==
    LET w == SkipSpaces(s, e)
        z == SkipLetters(s, w)
    IN  IF BoundaryBefore(s, i) /\ e # 0
        THEN [end |-> z,
              repl |-> SubSeq(s, i, e - 1) \o <<",", " ">> \o SubSeq(s, w, z - 1)]
        ELSE NoMatch

\* The same when the word after the greeting must begin with an upper-case
\* letter: [A-Z] taken literally.
CapitalGreetingAt(s, i, e) ==
    IF e # 0 /\ InSeq(CharAt(s, SkipSpaces(s, e)), UpperLetters)
    THEN GreetingAt(s, i, e)
    ELSE NoMatch

MatchGreetingCapital(s, i) ==
    CapitalGreetingAt(s, i, AltEnd(s, i, GreetingWords, TRUE, "name"))

MatchGreeting(s, i) == GreetingAt(s, i, AltEnd(s, i, GreetingWords, TRUE, "name"))

\* r'(\w+)\s+(and|or)\s+(\w+)' -> r'\1, \2 \3' (line 205); a: the end of
\* the first word, e: the end of the conjunction, 0 without match.
ConjunctionAt(s, i, a, e) ==
    LET c == SkipSpaces(s, a)
        w == SkipSpaces(s, e)
        z == SkipWordChars(s, w)
    IN  IF a > i /\ c > a /\ e # 0
        THEN [end |-> z,
              repl |-> SubSeq(s, i, a - 1) \o <<",", " ">> \o SubSeq(s, c, e - 1)
                       \o <<" ">> \o SubSeq(s, w, z - 1)]
        ELSE NoMatch

MatchConjunction(s, i) ==
    ConjunctionAt(s, i, SkipWordChars(s, i),
                  AltEnd(s, SkipSpaces(s, SkipWordChars(s, i)),
                         Conjunctions, FALSE, "word"))

\* r'(?<!,)\s+(but|yet|so)\s+(?=\w{3,})' -> r', \1 ' (line 211); c: the end
\* of the whitespace, e: the end of the word, 0 without match.
ContrastAt(s, i, c, e) ==
    IF c > i /\ (i = 1 \/ s[i - 1] # ",") /\ e # 0
    THEN [end |-> SkipSpaces(s, e),
          repl |-> <<",", " ">> \o SubSeq(s, c, e - 1) \o <<" ">>]
    ELSE NoMatch

MatchContrast(s, i) ==
    ContrastAt(s, i, SkipSpaces(s, i),
               AltEnd(s, SkipSpaces(s, i), ContrastWords, FALSE, "word3"))

\* r'\b(however|...|finally)\b' -> r'\1 --', IGNORECASE (line 218)
TransitionAt(s, i, e) ==
    IF BoundaryBefore(s, i) /\ e # 0
    THEN [end |-> e, repl |-> SubSeq(s, i, e - 1) \o <<" ", "-", "-">>]
    ELSE NoMatch

MatchTransition(s, i) ==
    TransitionAt(s, i, AltEnd(s, i, TransitionWords, TRUE, "boundary"))

\* r'\b(important|note|remember|please|understand)\b' -> r'-- \1',
\* IGNORECASE (line 221)
EmphasisAt(s, i, e) ==
    IF BoundaryBefore(s, i) /\ e # 0
    THEN [end |-> e, repl |-> <<"-", "-", " ">> \o SubSeq(s, i, e - 1)]
    ELSE NoMatch

MatchEmphasis(s, i) ==
    EmphasisAt(s, i, AltEnd(s, i, EmphasisWords, TRUE, "boundary"))

\* r'Speaker\s*(\d+)' -> r'Speaker \1' and r'User\s*(\d+)' -> r'User \1',
\* IGNORECASE (lines 157, 158)
MatchLabel(s, i, lit, canonical) ==
    LET w == SkipSpaces(s, i + Len(lit))
        z == SkipDigits(s, w)
    IN  IF LitAt(s, i, lit, TRUE) /\ z > w
        THEN [end |-> z, repl |-> canonical \o <<" ">> \o SubSeq(s, w, z - 1)]
        ELSE NoMatch

TryMatch(rx, s, i) ==
    CASE rx = "greeting" -> MatchGreeting(s, i)
      [] rx = "conjunction" -> MatchConjunction(s, i)
      [] rx = "contrast" -> MatchContrast(s, i)
      [] rx = "transition" -> MatchTransition(s, i)
      [] rx = "emphasis" -> MatchEmphasis(s, i)
      [] rx = "speaker" -> MatchLabel(s, i, <<"s", "p", "e", "a", "k", "e", "r">>, <<"S", "p", "e", "a", "k", "e", "r">>)
      [] rx = "user" -> MatchLabel(s, i, <<"u", "s", "e", "r">>, <<"U", "s", "e", "r">>)

\* re.sub(rx, repl, s): the matches are sought from left to right, each
\* from the end of the one before; what lies between is copied.
RECURSIVE SubFrom(_, _, _)
SubNext(rx, s, i, m) ==
    IF m.end # 0 THEN m.repl \o SubFrom(rx, s, m.end)
    ELSE <<s[i]>> \o SubFrom(rx, s, i + 1)

SubFrom(rx, s, i) ==
    IF i > Len(s) THEN <<>> ELSE SubNext(rx, s, i, TryMatch(rx, s, i))

Sub(rx, s) == SubFrom(rx, s, 1)

\* re.search(r'\b(w1|w2|...)\b', s)
ContainsWord(s, words) ==
    \E i \in 1..Len(s) :
        BoundaryBefore(s, i) /\ AltEnd(s, i, words, FALSE, "boundary") # 0

(***************************************************************************)
(* The formatting functions (src/app.py lines 126-223).                    *)
(***************************************************************************)

\* r'^(well|so|...|moreover)\s+' -> r'\1, ', IGNORECASE (line 208): the
\* pattern can match at the start of the string only; e: the end of the
\* word, 0 without match.
IntroCommaAt(s, e) ==
    IF e # 0
    THEN SubSeq(s, 1, e - 1) \o <<",", " ">> \o SubSeq(s, SkipSpaces(s, e), Len(s))
    ELSE s

IntroComma(s) == IntroCommaAt(s, AltEnd(s, 1, IntroWords, TRUE, "space"))

\* add_natural_commas (lines 199-213)
add_natural_commas(s) ==
    Sub("contrast", IntroComma(Sub("conjunction", Sub("greeting", s))))

\* add_strategic_pauses (lines 215-223)
add_strategic_pauses(s) == Sub("emphasis", Sub("transition", s))

\* format_speaker_name (lines 154-161)
format_speaker_name(speaker_name) == Sub("user", Sub("speaker", speaker_name))

\* The ending of a sentence that has none, taken without looking for the
\* question words.
EndingOfLowerNoQuestion(lowered) ==
    IF ContainsWord(lowered, ExclamationWords) THEN "!" ELSE "."

\* The ending of a sentence that has none, from its lower-case form
\* (lines 183-188).
EndingOfLower(lowered) ==
    IF ContainsWord(lowered, QuestionWords) THEN "?"
    ELSE IF ContainsWord(lowered, ExclamationWords) THEN "!"
    ELSE "."

\* Lines 181-188: a sentence (commas added) that ends in none of . ! ? is
\* given an ending.
EnsureEnding(sentence) ==
    IF sentence # <<>> /\ IsTerminal(sentence[Len(sentence)]) THEN sentence
    ELSE Append(sentence, EndingOfLower(Lower(sentence)))

\* The loop over the sentences (lines 172-190): the formatted sentences of
\* sentences[i..], the empty ones left out.
RECURSIVE FormatSentences(_, _)
FormatSentences(sentences, i) ==
    IF i > Len(sentences) THEN <<>>
    ELSE (IF Strip(sentences[i]) = <<>> THEN <<>>
          ELSE <<EnsureEnding(add_natural_commas(Strip(sentences[i])))>>)
         \o FormatSentences(sentences, i + 1)

\* format_speech_text (lines 163-197)
format_speech_text(t) ==
    IF Strip(t) = <<>> THEN t
    ELSE add_strategic_pauses(
             Join(<<" ">>, FormatSentences(SplitSentences(t), 1)))

\* str.split('\n\n'): the pieces between the occurrences of two newlines,
\* found from left to right without overlap.
RECURSIVE SplitParagraphsFrom(_, _, _)
SplitParagraphsFrom(s, from, i) ==
    IF i > Len(s) THEN <<SubSeq(s, from, Len(s))>>
    ELSE IF LitAt(s, i, <<"\n", "\n">>, FALSE)
         THEN <<SubSeq(s, from, i - 1)>> \o SplitParagraphsFrom(s, i + 2, i + 2)
         ELSE SplitParagraphsFrom(s, from, i + 1)

SplitParagraphs(s) == SplitParagraphsFrom(s, 1, 1)

\* The position of the first ":" of s (0 when there is none).
FirstColon(s) ==
    IF \E k \in 1..Len(s) : s[k] = ":"
    THEN CHOOSE k \in 1..Len(s) : s[k] = ":" /\ \A j \in 1..(k - 1) : s[j] # ":"
    ELSE 0

\* re.match(r'^([^:]+):\s*(.+)$', p, re.DOTALL) on a stripped paragraph
\* (line 137) matches when the first colon, at c, has a character before it
\* and one after it.
HasSpeaker(p, c) == c >= 2 /\ c < Len(p)

\* One paragraph of enhance_text_for_speech (lines 137-150), p stripped and
\* not empty, c the position of its first colon.
EnhanceParagraphAt(p, c) ==
    (IF HasSpeaker(p, c)
     THEN format_speaker_name(Strip(SubSeq(p, 1, c - 1))) \o <<":", " ">>
     ELSE <<>>)
    \o format_speech_text(IF HasSpeaker(p, c)
                          THEN Strip(SubSeq(p, c + 1, Len(p)))
                          ELSE p)

EnhanceParagraph(p) == EnhanceParagraphAt(p, FirstColon(p))

RECURSIVE EnhanceParagraphs(_, _)
EnhanceParagraphs(paragraphs, i) ==
    IF i > Len(paragraphs) THEN <<>>
    ELSE (IF Strip(paragraphs[i]) = <<>> THEN <<>>
          ELSE <<EnhanceParagraph(Strip(paragraphs[i]))>>)
         \o EnhanceParagraphs(paragraphs, i + 1)

\* enhance_text_for_speech (lines 126-152)
enhance_text_for_speech(t) ==
    Join(<<"\n", "\n">>, EnhanceParagraphs(SplitParagraphs(t), 1))

(***************************************************************************)
(* json.loads, for the documents the model feeds it: text without          *)
(* backslash (no escape sequence in a string).  A value is a record        *)
(*   [k, s, items, keys]                                                   *)
(* where k is the Python type ("str", "int", "float", "null", "true",      *)
(* "false", "list", "dict"), s the characters of a string or the lexeme of *)
(* a number, items the items of a list or the values of a dict, and keys   *)
(* the keys of a dict, in the order written.                               *)
(***************************************************************************)
JsonValue(k, s, items, keys) == [k |-> k, s |-> s, items |-> items, keys |-> keys]

Parsed(v, pos) == [ok |-> TRUE, v |-> v, pos |-> pos]
NotParsed == [ok |-> FALSE, v |-> JsonValue("null", <<>>, <<>>, <<>>), pos |-> 0]

\* The whitespace of the JSON grammar.
IsJsonSpace(c) == c \in {" ", "\t", "\n", "\r"}

RECURSIVE SkipJsonSpaces(_, _)
SkipJsonSpaces(s, i) ==
    IF i <= Len(s) /\ IsJsonSpace(s[i]) THEN SkipJsonSpaces(s, i + 1) ELSE i

\* The position of the quote that closes the string opened before i; 0 when
\* the string is not closed or holds a control character.
RECURSIVE StringEnd(_, _)
StringEnd(s, i) ==
    IF i > Len(s) THEN 0
    ELSE IF s[i] = "\"" THEN i
    ELSE IF s[i] \in {"\n", "\t", "\r"} THEN 0
    ELSE StringEnd(s, i + 1)

ParseString(s, i) ==
    LET e == StringEnd(s, i + 1)
    IN  IF e = 0 THEN NotParsed
        ELSE Parsed(JsonValue("str", SubSeq(s, i + 1, e - 1), <<>>, <<>>), e + 1)

\* (-?(?:0|[1-9]\d*))(\.\d+)?([eE][-+]?\d+)? at i
ParseNumber(s, i) ==
    LET d == IF CharAt(s, i) = "-" THEN i + 1 ELSE i
        intEnd == IF CharAt(s, d) = "0" THEN d + 1 ELSE SkipDigits(s, d)
        fracEnd == IF CharAt(s, intEnd) = "." /\ SkipDigits(s, intEnd + 1) > intEnd + 1
                   THEN SkipDigits(s, intEnd + 1) ELSE intEnd
        x == IF CharAt(s, fracEnd + 1) \in {"-", "+"} THEN fracEnd + 2 ELSE fracEnd + 1
        expEnd == IF CharAt(s, fracEnd) \in {"e", "E"} /\ SkipDigits(s, x) > x
                  THEN SkipDigits(s, x) ELSE fracEnd
    IN  IF intEnd = d THEN NotParsed
        ELSE Parsed(JsonValue(IF expEnd = intEnd THEN "int" ELSE "float",
                              SubSeq(s, i, expEnd - 1), <<>>, <<>>), expEnd)

RECURSIVE ParseValue(_, _)
RECURSIVE ParseItems(_, _, _)
RECURSIVE ParseMembers(_, _, _, _)

\* The value that starts at i.
ParseValue(s, i) ==
    LET c == CharAt(s, i)
        j == SkipJsonSpaces(s, i + 1)
    IN  CASE c = "\"" -> ParseString(s, i)
          [] c = "[" -> IF CharAt(s, j) = "]"
                        THEN Parsed(JsonValue("list", <<>>, <<>>, <<>>), j + 1)
                        ELSE ParseItems(s, j, <<>>)
          [] c = "{" -> IF CharAt(s, j) = "}"
                        THEN Parsed(JsonValue("dict", <<>>, <<>>, <<>>), j + 1)
                        ELSE ParseMembers(s, j, <<>>, <<>>)
          [] c = "n" /\ LitAt(s, i, <<"n", "u", "l", "l">>, FALSE) ->
                 Parsed(JsonValue("null", <<>>, <<>>, <<>>), i + 4)
          [] c = "t" /\ LitAt(s, i, <<"t", "r", "u", "e">>, FALSE) ->
                 Parsed(JsonValue("true", <<>>, <<>>, <<>>), i + 4)
          [] c = "f" /\ LitAt(s, i, <<"f", "a", "l", "s", "e">>, FALSE) ->
                 Parsed(JsonValue("false", <<>>, <<>>, <<>>), i + 5)
          [] c = "N" /\ LitAt(s, i, <<"N", "a", "N">>, FALSE) ->
                 Parsed(JsonValue("float", <<"n", "a", "n">>, <<>>, <<>>), i + 3)
          [] c = "I" /\ LitAt(s, i, <<"I", "n", "f", "i", "n", "i", "t", "y">>, FALSE) ->
                 Parsed(JsonValue("float", <<"i", "n", "f">>, <<>>, <<>>), i + 8)
          [] c = "-" /\ LitAt(s, i, <<"-", "I", "n", "f", "i", "n", "i", "t", "y">>, FALSE) ->
                 Parsed(JsonValue("float", <<"-", "i", "n", "f">>, <<>>, <<>>), i + 9)
          [] IsDigit(c) \/ (c = "-" /\ IsDigit(CharAt(s, i + 1))) -> ParseNumber(s, i)
          [] OTHER -> NotParsed

\* The items of an array from the one that starts at i; seen: those before.
ParseItems(s, i, seen) ==
    LET r == ParseValue(s, i)
        j == SkipJsonSpaces(s, r.pos)
    IN  IF ~r.ok THEN NotParsed
        ELSE IF CharAt(s, j) = "]"
             THEN Parsed(JsonValue("list", <<>>, Append(seen, r.v), <<>>), j + 1)
        ELSE IF CharAt(s, j) = ","
             THEN ParseItems(s, SkipJsonSpaces(s, j + 1), Append(seen, r.v))
        ELSE NotParsed

\* The members of an object from the one whose key starts at i.
ParseMembers(s, i, keys, vals) ==
    LET key == ParseString(s, i)
        colon == SkipJsonSpaces(s, key.pos)
        r == ParseValue(s, SkipJsonSpaces(s, colon + 1))
        j == SkipJsonSpaces(s, r.pos)
    IN  IF CharAt(s, i) # "\"" \/ ~key.ok \/ CharAt(s, colon) # ":" THEN NotParsed
        ELSE IF ~r.ok THEN NotParsed
        ELSE IF CharAt(s, j) = "}"
             THEN Parsed(JsonValue("dict", <<>>, Append(vals, r.v),
                                   Append(keys, key.v.s)), j + 1)
        ELSE IF CharAt(s, j) = ","
             THEN ParseMembers(s, SkipJsonSpaces(s, j + 1),
                               Append(keys, key.v.s), Append(vals, r.v))
        ELSE NotParsed

\* json.loads(s), r being the value that starts after the leading
\* whitespace: what follows it must be whitespace only.
WholeDocument(s, r) ==
    IF r.ok /\ SkipJsonSpaces(s, r.pos) = Len(s) + 1 THEN r ELSE NotParsed

\* json.loads(s): ok is FALSE where it raises JSONDecodeError.
json_loads(s) == WholeDocument(s, ParseValue(s, SkipJsonSpaces(s, 1)))

\* dict.get(key, ""): the value written last for the key.
DictGet(d, key) ==
    IF \E k \in 1..Len(d.keys) : d.keys[k] = key
    THEN d.items[CHOOSE k \in 1..Len(d.keys) :
                    d.keys[k] = key /\ \A j \in (k + 1)..Len(d.keys) : d.keys[j] # key]
    ELSE JsonValue("str", <<>>, <<>>, <<>>)

\* bool(v), of the values the model puts in a record: no float.
Truthy(v) ==
    CASE v.k = "str" -> v.s # <<>>
      [] v.k = "int" -> v.s \notin {<<"0">>, <<"-", "0">>}
      [] v.k = "null" -> FALSE
      [] v.k = "true" -> TRUE
      [] v.k = "false" -> FALSE
      [] v.k = "list" -> v.items # <<>>
      [] v.k = "dict" -> v.items # <<>>

\* str(v), as an f-string formats it, of the values the model puts in a
\* record: strings, integers and the three literals.
PyStr(v) ==
    CASE v.k = "str" -> v.s
      [] v.k = "int" -> IF v.s = <<"-", "0">> THEN <<"0">> ELSE v.s
      [] v.k = "null" -> <<"N", "o", "n", "e">>
      [] v.k = "true" -> <<"T", "r", "u", "e">>
      [] v.k = "false" -> <<"F", "a", "l", "s", "e">>

(***************************************************************************)
(* format_transcript_to_text (src/app.py lines 103-124).  The result is    *)
(* [raised, value]: raised names the exception that leaves the function    *)
(* ("" when it returns), value is what it returns.                         *)
(***************************************************************************)
Returned(value) == [raised |-> "", value |-> value]
Raised(exception) == [raised |-> exception, value |-> <<>>]

\* One turn of the loop of lines 108-116 on a dict item.
RecordText(item) ==
    LET t == DictGet(item, <<"t", "e", "x", "t">>)
        speaker == DictGet(item, <<"s", "p", "e", "a", "k", "e", "r">>)
    IN  IF Truthy(speaker)
        THEN PyStr(speaker) \o <<":", " ">> \o PyStr(t) \o <<"\n", "\n">>
        ELSE PyStr(t) \o <<"\n", "\n">>

\* The loop of lines 108-116 over a list, from item i on: item.get raises
\* AttributeError on an item that is no dict.
RECURSIVE RecordsText(_, _, _)
RecordsText(items, i, result) ==
    IF i > Len(items) THEN Returned(result)
    ELSE IF items[i].k # "dict" THEN Raised("AttributeError")
    ELSE RecordsText(items, i + 1, result \o RecordText(items[i]))

\* Lines 107-118 on the value json.loads returned: iterating a dict gives
\* its keys and iterating a string its characters, which have no get;
\* a number, a boolean and None cannot be iterated.
IterateTranscripts(v) ==
    CASE v.k = "list" -> RecordsText(v.items, 1, <<>>)
      [] v.k = "dict" -> IF v.keys = <<>> THEN Returned(<<>>)
                         ELSE Raised("AttributeError")
      [] v.k = "str" -> IF v.s = <<>> THEN Returned(<<>>)
                        ELSE Raised("AttributeError")
      [] OTHER -> Raised("TypeError")

\* Lines 105-121: formatted_text, from what json.loads returned.  Only
\* json.JSONDecodeError is caught (line 119): an exception of the loop
\* leaves the function.
StripValue(r) == IF r.raised = "" THEN Returned(Strip(r.value)) ELSE r

FormattedText(parsed, raw) ==
    IF parsed.ok THEN StripValue(IterateTranscripts(parsed.v))
    ELSE Returned(Strip(raw))

\* Line 124, reached when nothing was raised.
EnhanceResult(r) ==
    IF r.raised = "" THEN Returned(enhance_text_for_speech(r.value)) ELSE r

format_transcript_to_text(raw) ==
    EnhanceResult(FormattedText(json_loads(raw), raw))

(***************************************************************************)
(* The values of the variables an operation does not use.                  *)
(***************************************************************************)
ChunkUnused == text = <<>> /\ max_chars = 0 /\ chunks = <<>>
MergeUnused == segments = <<>> /\ merged = <<>>
FormatUnused == transcripts_str = <<>> /\ formatted = [raised |-> "", value |-> <<>>]
MainUnused ==
    /\ api_key = <<>> /\ transcript = <<>>
    /\ text_chunks = <<>> /\ audio_chunks = <<>> /\ audio_data = <<>>
    /\ ui = <<>> /\ called = {} /\ posted = <<>> /\ responses = <<>>

(***************************************************************************)
(* The handler of the Convert button (src/app.py lines 280-340).  It is    *)
(* one sequential run; the model stops it at each requests.post, whose     *)
(* answer the synthesis service chooses.                                   *)
(***************************************************************************)

\* not transcript.strip(), without the strip.
IsBlankUnstripped(t) == t = <<>>

\* not transcript.strip() (line 283)
IsBlank(t) == Strip(t) = <<>>

\* A message of the page: st.error, st.info, st.audio, st.download_button,
\* st.success; chunk is the chunk number an error names (0: none).
Shown(kind, chunk) == [kind |-> kind, chunk |-> chunk]

\* audio_chunks.append(response.content), putting the segment first.
AppendSegmentFirst(chunks_so_far, content) == <<content>> \o chunks_so_far

\* audio_chunks.append(response.content) (line 312)
AppendSegment(chunks_so_far, content) == Append(chunks_so_far, content)

\* After a failed chunk, going on with the next one.
AfterFailureContinue(i, n) == i + 1

\* The break of lines 316 and 320: the index the loop goes on with after
\* chunk i failed; n, the number of chunks, ends it.
AfterFailure(i, n) == n

\* Lines 322-340, with the segments the loop collected, what the page
\* shows so far and the functions called so far.
Finish(collected, shown, calls) ==
    IF Len(collected) = Len(text_chunks')
    THEN /\ audio_data' = merge_audio_chunks(collected)
         /\ called' = calls \cup {"merge_audio_chunks"}
         /\ ui' = shown \o <<Shown("audio", 0), Shown("download_button", 0),
                             Shown("success", 0)>>
    ELSE /\ audio_data' = <<>>
         /\ called' = calls
         /\ ui' = Append(shown, Shown("error_incomplete", 0))

\* The loop of line 296 reaches index i (0-based) with the segments
\* collected: it posts chunk i, or it is over and lines 322-340 run.
LoopAt(i, collected, shown, calls) ==
    /\ audio_chunks' = collected
    /\ IF i < Len(text_chunks')
       THEN /\ posted' = Append(posted, [i |-> i, text |-> text_chunks'[i + 1]])
            /\ pc' = "awaiting_response"
            /\ ui' = shown
            /\ called' = calls
            /\ audio_data' = audio_data
       ELSE /\ posted' = posted
            /\ pc' = "done"
            /\ Finish(collected, shown, calls)

\* The budget chunk_text works with in the model of main.  main calls
\* chunk_text with the default max_chars, 1800 (line 42, line 288); the
\* model scales it down so that short transcripts give several chunks.
ScaledMaxChars == 2

\* A click whose precondition fails (lines 281-284): one error, nothing else.
Rejected(kind) ==
    /\ pc' = "done"
    /\ ui' = <<Shown(kind, 0)>>
    /\ UNCHANGED <<text_chunks, audio_chunks, audio_data, called, posted, responses>>

\* Lines 287-309, r being what format_transcript_to_text did.  An
\* exception that leaves it ends the run of the script; the page shows the
\* exception.
ConvertText(r) ==
    IF r.raised # ""
    THEN /\ pc' = "done"
         /\ ui' = <<Shown("exception", 0)>>
         /\ called' = {"format_transcript_to_text"}
         /\ UNCHANGED <<text_chunks, audio_chunks, audio_data, posted, responses>>
    ELSE /\ text_chunks' = chunk_text(r.value, ScaledMaxChars)
         /\ responses' = responses
         /\ LoopAt(0, <<>>,
                   (IF Len(text_chunks') > 1
                    THEN <<Shown("info_chunks", Len(text_chunks'))>>
                    ELSE <<>>) \o <<Shown("progress", 0)>>,
                   {"format_transcript_to_text", "chunk_text"})

\* The click on the Convert button, as far as the first requests.post
\* (lines 280-309).
Convert ==
    /\ pc = "idle"
    /\ IF api_key = <<>> THEN Rejected("error_api_key")
       ELSE IF IsBlank(transcript) THEN Rejected("error_transcript")
       ELSE ConvertText(format_transcript_to_text(transcript))
    /\ UNCHANGED <<api_key, transcript, chunkVars, mergeVars, formatVars>>

\* The index i of the chunk whose request is under way.
CurrentIndex == posted[Len(posted)].i

\* requests.post returns status 200 with `content` (lines 311-313).
Respond200(content) ==
    /\ pc = "awaiting_response"
    /\ responses' = Append(responses, [status |-> "200", content |-> content])
    /\ text_chunks' = text_chunks
    /\ LoopAt(CurrentIndex + 1, AppendSegment(audio_chunks, content),
              Append(ui, Shown("progress", CurrentIndex + 1)), called)
    /\ UNCHANGED <<api_key, transcript, chunkVars, mergeVars, formatVars>>

\* requests.post returns another status (lines 314-316).
RespondError ==
    /\ pc = "awaiting_response"
    /\ responses' = Append(responses, [status |-> "error", content |-> <<>>])
    /\ text_chunks' = text_chunks
    /\ LoopAt(AfterFailure(CurrentIndex, Len(text_chunks)), audio_chunks,
              Append(ui, Shown("error_status", CurrentIndex + 1)), called)
    /\ UNCHANGED <<api_key, transcript, chunkVars, mergeVars, formatVars>>

\* requests.post raises (lines 318-320).
RespondException ==
    /\ pc = "awaiting_response"
    /\ responses' = Append(responses, [status |-> "exception", content |-> <<>>])
    /\ text_chunks' = text_chunks
    /\ LoopAt(AfterFailure(CurrentIndex, Len(text_chunks)), audio_chunks,
              Append(ui, Shown("error_exception", CurrentIndex + 1)), called)
    /\ UNCHANGED <<api_key, transcript, chunkVars, mergeVars, formatVars>>

(***************************************************************************)
(* Specification of chunk_text: the arguments are drawn from all texts of  *)
(* at most MaxTextLen characters over ChunkAlphabet and all budgets up to  *)
(* MaxBudget, and the one action calls the function.                       *)
(***************************************************************************)
MaxTextLen == 6
MaxBudget == 4

ChunkAlphabet == {"a", "b", ".", " "}

Texts(alphabet, n) == UNION {[1..k -> alphabet] : k \in 0..n}

InitChunk ==
    /\ pc = "chunk_call"
    /\ text \in Texts(ChunkAlphabet, MaxTextLen)
    /\ max_chars \in 0..MaxBudget
    /\ chunks = <<>>
    /\ MergeUnused /\ FormatUnused /\ MainUnused

ChunkCall ==
    /\ pc = "chunk_call"
    /\ chunks' = chunk_text(text, max_chars)
    /\ pc' = "chunk_done"
    /\ UNCHANGED <<text, max_chars, mergeVars, formatVars, mainVars>>

NextChunk == ChunkCall

SpecChunk == InitChunk /\ [][NextChunk]_vars

(***************************************************************************)
(* Specification of merge_audio_chunks: the argument is any list of at     *)
(* most MaxSegments segments; a segment has one of the lengths of          *)
(* SegmentLengths, which surround the header size, and one of two byte     *)
(* patterns in which every position holds a different byte.                *)
(***************************************************************************)
MaxSegments == 3
MaxPayload == 2

SegmentLengths == {0, 1} \cup ((HeaderSize - 1)..(HeaderSize + MaxPayload))

Segment(tag, len) == [k \in 1..len |-> (100 * tag + k) % 256]

Segments == {Segment(tag, len) : tag \in {0, 1}, len \in SegmentLengths}

InitMerge ==
    /\ pc = "merge_call"
    /\ segments \in UNION {[1..k -> Segments] : k \in 0..MaxSegments}
    /\ merged = <<>>
    /\ ChunkUnused /\ FormatUnused /\ MainUnused

MergeCall ==
    /\ pc = "merge_call"
    /\ merged' = merge_audio_chunks(segments)
    /\ pc' = "merge_done"
    /\ UNCHANGED <<segments, chunkVars, formatVars, mainVars>>

NextMerge == MergeCall

SpecMerge == InitMerge /\ [][NextMerge]_vars

(***************************************************************************)
(* Specification of format_transcript_to_text followed by chunk_text, as   *)
(* main applies them (lines 287-288).  The raw input is one of             *)
(*   - every string of at most MaxRawLen characters over JsonAlphabet,     *)
(*   - the texts of at most MaxWords words of Vocabulary, as plain text    *)
(*     and as the text of one JSON record with and without a speaker,      *)
(*   - the documents of SampleInputs.                                      *)
(***************************************************************************)
MaxRawLen == 3
MaxWords == 3

\* The default of max_chars (line 42).
DefaultMaxChars == 1800

JsonAlphabet == {"[", "]", "{", "}", "\"", "1", " "}

Vocabulary ==
    << <<"h", "e", "l", "l", "o">>, <<"i", "s">>, <<"a", "n", "d">>, <<"s", "o">>, <<"w", "o", "w">>, <<"c", "a", "t">> >>

WordTexts ==
    {Join(<<" ">>, [k \in 1..m |-> Vocabulary[f[k]]]) :
        f \in [1..MaxWords -> 1..Len(Vocabulary)], m \in 0..MaxWords}

\* [{"speaker":"<speaker>","text":"<t>"}] and [{"text":"<t>"}]
RecordWithSpeaker(speaker, t) ==
    <<"[", "{", "\"", "s", "p", "e", "a", "k", "e", "r", "\"", ":", "\"">> \o speaker \o <<"\"", ",", "\"", "t", "e", "x", "t", "\"", ":", "\"">> \o t \o <<"\"", "}", "]">>
RecordWithoutSpeaker(t) == <<"[", "{", "\"", "t", "e", "x", "t", "\"", ":", "\"">> \o t \o <<"\"", "}", "]">>

PlainScenario == <<"t", "h", "i", "s", " ", "i", "s", " ", "p", "l", "a", "i", "n", " ", "t", "e", "x", "t", " ", "w", "i", "t", "h", "o", "u", "t", " ", "j", "s", "o", "n">>
DialogueScenario == <<"[", "{", "\"", "s", "p", "e", "a", "k", "e", "r", "\"", ":", "\"", "A", "g", "e", "n", "t", "\"", ",", "\"", "t", "e", "x", "t", "\"", ":", "\"", "h", "e", "l", "l", "o", " ", "h", "o", "w", " ", "a", "r", "e", " ", "y", "o", "u", "\"", "}", "]">>

SampleInputs ==
    { PlainScenario, DialogueScenario,
      <<"n", "u", "l", "l">>, <<"t", "r", "u", "e">>, <<"f", "a", "l", "s", "e">>, <<"4", "2">>, <<"1", ".", "5">>, <<"0">>, <<"N", "a", "N">>,
      <<"\"", "h", "e", "l", "l", "o", "\"">>, <<"\"", "\"">>, <<"{", "}">>, <<"{", "\"", "a", "\"", ":", "1", "}">>, <<"[", "1", "]">>, <<"[", "\"", "a", "\"", "]">>,
      <<"[", "n", "u", "l", "l", "]">>, <<"[", "[", "]", "]">>, <<"[", "{", "\"", "t", "e", "x", "t", "\"", ":", "\"", "a", "\"", "}", ",", "2", "]">>, <<" ", "[", " ", "]", " ">>,
      <<"[", "{", "\"", "t", "e", "x", "t", "\"", ":", "\"", "a", "\"", "}", ",", "{", "\"", "s", "p", "e", "a", "k", "e", "r", "\"", ":", "\"", "S", "p", "e", "a", "k", "e", "r", "1", "\"", ",", "\"", "t", "e", "x", "t", "\"", ":", "\"", "h", "i", " ", "B", "o", "b", "\"", "}", "]">>,
      <<"[", "{", "\"", "s", "p", "e", "a", "k", "e", "r", "\"", ":", "0", ",", "\"", "t", "e", "x", "t", "\"", ":", "5", "}", "]">>,
      <<"H", "o", "w", "e", "v", "e", "r", " ", "w", "e", " ", "n", "o", "t", "e", " ", "i", "t">>, <<"h", "o", "w", " ", "i", "s", " ", "i", "t">>, <<"h", "e", "l", "l", "o", " ", "c", "a", "t", " ", "a", "n", "d", " ", "n", "o", "t", "e", " ", "s", "o", " ", "w", "o", "w">>, <<"u", "s", "e", "r", "7", ":", " ", "w", "e", "l", "l", " ", "i", "t", " ", "i", "s", " ", "f", "i", "n", "e", " ", "b", "u", "t", " ", "n", "o", "t", " ", "g", "r", "e", "a", "t">>,
      <<"H", "e", "l", "l", "o", " ", "B", "o", "b", ".", " ", "a", "r", "e", " ", "y", "o", "u", " ", "o", "k">>, <<"a", ":", " ", "b", "\n", "\n", "c">> }

FormatInputs ==
    Texts(JsonAlphabet, MaxRawLen) \cup SampleInputs \cup WordTexts
      \cup {RecordWithSpeaker(<<"A", "g", "e", "n", "t">>, t) : t \in WordTexts}
      \cup {RecordWithoutSpeaker(t) : t \in WordTexts}

InitFormat ==
    /\ pc = "format_call"
    /\ transcripts_str \in FormatInputs
    /\ formatted = [raised |-> "", value |-> <<>>]
    /\ ChunkUnused /\ MergeUnused /\ MainUnused

FormatCall ==
    /\ pc = "format_call"
    /\ formatted' = format_transcript_to_text(transcripts_str)
    /\ pc' = "format_done"
    /\ UNCHANGED <<transcripts_str, chunkVars, mergeVars, mainVars>>

\* chunk_text(transcript_text, n) on the text the formatter returned.
ChunkFormatted ==
    /\ pc = "format_done"
    /\ formatted.raised = ""
    /\ \E n \in {DefaultMaxChars, ScaledMaxChars} :
          /\ text' = formatted.value
          /\ max_chars' = n
          /\ chunks' = chunk_text(formatted.value, n)
    /\ pc' = "chunk_done"
    /\ UNCHANGED <<formatVars, mergeVars, mainVars>>

NextFormat == FormatCall \/ ChunkFormatted

SpecFormat == InitFormat /\ [][NextFormat]_vars

(***************************************************************************)
(* Specification of one conversion: the page holds an API key (or none)    *)
(* and a transcript, the button is clicked, and the synthesis service      *)
(* answers each request with one of two audio segments, with an error      *)
(* status, or not at all (the call raises).  The transcript is any string  *)
(* of at most MaxTranscriptLen characters over TranscriptAlphabet, or one  *)
(* of SampleTranscripts.                                                   *)
(***************************************************************************)
MaxTranscriptLen == 5

TranscriptAlphabet == {"a", ".", " ", "\n"}

SampleTranscripts ==
    { <<"[", "]">>, <<" ", "[", "]", " ">>, <<"{", "}">>, <<"\"", "\"">>, <<"1">>, <<"n", "u", "l", "l">>, <<"[", "1", "]">>,
      <<"[", "{", "\"", "t", "e", "x", "t", "\"", ":", "\"", "\"", "}", "]">>, <<"[", "{", "\"", "t", "e", "x", "t", "\"", ":", "\"", "a", " ", "b", " ", "c", "\"", "}", "]">>,
      <<"[", "{", "\"", "s", "p", "e", "a", "k", "e", "r", "\"", ":", "\"", "S", "\"", ",", "\"", "t", "e", "x", "t", "\"", ":", "\"", "a", ".", " ", "b", "\"", "}", ",", "{", "\"", "t", "e", "x", "t", "\"", ":", "\"", "c", "\"", "}", "]">> }

Transcripts == Texts(TranscriptAlphabet, MaxTranscriptLen) \cup SampleTranscripts

\* A segment longer than a header and one shorter.
ResponseContents == {Segment(0, HeaderSize + 1), Segment(1, HeaderSize - 1)}

Init ==
    /\ pc = "idle"
    /\ api_key \in {<<>>, <<"k", "e", "y">>}
    /\ transcript \in Transcripts
    /\ text_chunks = <<>> /\ audio_chunks = <<>> /\ audio_data = <<>>
    /\ ui = <<>> /\ called = {} /\ posted = <<>> /\ responses = <<>>
    /\ ChunkUnused /\ MergeUnused /\ FormatUnused

Next ==
    \/ Convert
    \/ \E content \in ResponseContents : Respond200(content)
    \/ RespondError
    \/ RespondException

Spec == Init /\ [][Next]_vars

(***************************************************************************)
(* The claims.                                                             *)
(***************************************************************************)

\* The whitespace-separated words of the chunks joined with single spaces.
WordsOfChunks(list) == SplitWords(Join(<<" ">>, list))

NoWordLongerThan(t, n) ==
    \A k \in 1..Len(SplitWords(t)) : Len(SplitWords(t)[k]) <= n

\* C1: for every text and every max_chars >= 1, every chunk chunk_text
\* returns has at most max_chars characters.
C1_ChunksWithinBudget ==
    (pc = "chunk_done" /\ max_chars >= 1)
    => \A k \in 1..Len(chunks) : Len(chunks[k]) <= max_chars

\* C4: when no word of the text is longer than max_chars, the words of the
\* chunks, joined with single spaces in the order returned, are the words
\* of the text: none lost, none repeated, none out of order.
C4_WordSequencePreserved ==
    (pc = "chunk_done" /\ NoWordLongerThan(text, max_chars))
    => WordsOfChunks(chunks) = SplitWords(text)

\* C4 happens: a text of several sentences, one of them longer than the
\* budget on its own, is cut in three chunks or more, no word too long.
C4_Witness ==
    /\ pc = "chunk_done"
    /\ NoWordLongerThan(text, max_chars)
    /\ Len(chunks) >= 3
    /\ Len(SplitSentences(text)) >= 2
    /\ \E k \in 1..Len(SplitSentences(text)) :
          /\ Len(SplitSentences(text)[k]) > max_chars
          /\ Len(SplitWords(SplitSentences(text)[k])) >= 2

\* max(0, len(segment) - 44): the bytes a segment after the first gives.
PayloadLen(segment) ==
    IF Len(segment) > HeaderSize THEN Len(segment) - HeaderSize ELSE 0

\* The sum of PayloadLen over list[from..to].
RECURSIVE PayloadSum(_, _, _)
PayloadSum(list, from, to) ==
    IF from > to THEN 0
    ELSE PayloadLen(list[to]) + PayloadSum(list, from, to - 1)

\* C5: merge_audio_chunks returns the empty bytes for no segment, the
\* segment for one, and for more the first segment whole followed, in
\* order, by each later segment without its first 44 bytes, a segment of
\* 44 bytes or fewer giving nothing.
C5_MergeLayout ==
    pc = "merge_done" =>
      /\ segments = <<>> => merged = <<>>
      /\ Len(segments) = 1 => merged = segments[1]
      /\ Len(segments) >= 2 =>
           /\ Len(merged) = Len(segments[1]) + PayloadSum(segments, 2, Len(segments))
           /\ \A k \in 1..Len(segments[1]) : merged[k] = segments[1][k]
           /\ \A i \in 2..Len(segments) : \A k \in 1..PayloadLen(segments[i]) :
                 merged[Len(segments[1]) + PayloadSum(segments, 2, i - 1) + k]
                   = segments[i][HeaderSize + k]

\* C5 happens: three segments or more, the first not empty, a later one no
\* longer than a header followed by one longer than a header.
C5_Witness ==
    /\ pc = "merge_done"
    /\ Len(segments) >= 3
    /\ Len(segments[1]) >= 1
    /\ \E i \in 2..(Len(segments) - 1) :
          /\ Len(segments[i]) <= HeaderSize /\ Len(segments[i]) >= 1
          /\ Len(segments[i + 1]) > HeaderSize + 1
    /\ Len(merged) > Len(segments[1])

Failed(response) == response.status # "200"

NoAudioShown ==
    \A k \in 1..Len(ui) : ui[k].kind \notin {"audio", "download_button", "success"}

\* C2: the requests of one conversion are issued once per chunk and in
\* chunk order, each only after every earlier chunk succeeded; after the
\* first failing chunk (error status or exception) there is no further
\* request, merge_audio_chunks is not called and no audio is played or
\* offered for download.
C2_RequestsInOrderStopAtFailure ==
    /\ Len(posted) <= Len(text_chunks)
    /\ \A k \in 1..Len(posted) :
          posted[k].i = k - 1 /\ posted[k].text = text_chunks[k]
    /\ Len(responses) <= Len(posted) /\ Len(posted) <= Len(responses) + 1
    /\ \A k \in 1..Len(responses) : k < Len(posted) => ~Failed(responses[k])
    /\ (\E k \in 1..Len(responses) : Failed(responses[k])) =>
          /\ pc = "done"
          /\ Len(posted) = Len(responses)
          /\ "merge_audio_chunks" \notin called
          /\ NoAudioShown
          /\ audio_data = <<>>

\* C2 happens: the second chunk of three or more fails after the first
\* succeeded, and the conversion is over.
C2_Witness ==
    /\ pc = "done"
    /\ Len(text_chunks) >= 3
    /\ Len(responses) = 2
    /\ ~Failed(responses[1]) /\ Failed(responses[2])
    /\ Len(responses[1].content) > 0

AllSucceeded ==
    /\ Len(responses) = Len(text_chunks)
    /\ \A k \in 1..Len(responses) : ~Failed(responses[k])

\* C3: when every chunk's synthesis succeeds, the audio played is
\* merge_audio_chunks of the list that holds, at position i, the response
\* obtained for chunk i, as many segments as chunks.
C3_AudioIsMergeOfResponsesInOrder ==
    (pc = "done" /\ text_chunks # <<>> /\ AllSucceeded) =>
      /\ Len(audio_chunks) = Len(text_chunks)
      /\ \A k \in 1..Len(text_chunks) :
            /\ posted[k].text = text_chunks[k]
            /\ audio_chunks[k] = responses[k].content
      /\ audio_data =
            merge_audio_chunks([k \in 1..Len(text_chunks) |-> responses[k].content])
      /\ \E k \in 1..Len(ui) : ui[k].kind = "audio"
      /\ "merge_audio_chunks" \in called

\* C3 happens: three chunks or more, all synthesised, with responses that
\* differ.
C3_Witness ==
    /\ pc = "done"
    /\ Len(text_chunks) >= 3
    /\ AllSucceeded
    /\ responses[1].content # responses[2].content
    /\ responses[2].content # responses[3].content

\* C6: chunk_text returns only non-empty strings, so that no empty chunk
\* is handed to the synthesis service.
C6_NoEmptyChunk ==
    /\ \A k \in 1..Len(text_chunks) : text_chunks[k] # <<>>
    /\ \A k \in 1..Len(posted) : posted[k].text # <<>>

\* The input parses as a sequence of {speaker?, text} records.
ParsesAsRecords(raw) ==
    /\ json_loads(raw).ok
    /\ json_loads(raw).v.k = "list"
    /\ \A k \in 1..Len(json_loads(raw).v.items) : json_loads(raw).v.items[k].k = "dict"

\* C7: format_transcript_to_text returns for every raw input, and whenever
\* the input does not parse as a sequence of records the whole trimmed raw
\* string is formatted as plain text.
C7_PlainTextFallbackForEveryOtherInput ==
    pc # "format_call" =>
      /\ formatted.raised = ""
      /\ ~ParsesAsRecords(transcripts_str) =>
            formatted.value = enhance_text_for_speech(Strip(transcripts_str))

AllWhitespace(t) == \A k \in 1..Len(t) : IsSpace(t[k])

\* C8: when the API key is missing or the transcript is blank after
\* trimming, the conversion ends with one error and formats nothing, chunks
\* nothing, requests nothing and produces no audio.
C8_RejectedWithoutWork ==
    (pc # "idle" /\ (api_key = <<>> \/ AllWhitespace(transcript))) =>
      /\ pc = "done"
      /\ ui \in {<<Shown("error_api_key", 0)>>, <<Shown("error_transcript", 0)>>}
      /\ called = {}
      /\ text_chunks = <<>>
      /\ posted = <<>> /\ responses = <<>>
      /\ audio_chunks = <<>> /\ audio_data = <<>>

\* C8 happens: a key is given and the transcript holds whitespace only.
C8_Witness ==
    /\ pc = "done"
    /\ api_key # <<>>
    /\ transcript # <<>> /\ AllWhitespace(transcript)
    /\ ui = <<Shown("error_transcript", 0)>>

\* The ending of a one-sentence text of lower-case words, by its words.
MarkByWords(t) ==
    IF \E k \in 1..Len(SplitWords(t)) : InSeq(SplitWords(t)[k], QuestionWords)
    THEN "?"
    ELSE IF \E k \in 1..Len(SplitWords(t)) : InSeq(SplitWords(t)[k], ExclamationWords)
    THEN "!"
    ELSE "."

\* C9, as stated: the plain-text scenario gives one chunk, the input with a
\* terminal "." appended.
C9_PlainScenarioEndsWithPeriod ==
    (pc = "chunk_done" /\ transcripts_str = PlainScenario
       /\ max_chars = DefaultMaxChars)
    => chunks = <<Append(PlainScenario, ".")>>

\* C9, amended: the plain-text scenario, with max_chars = 1800, gives one
\* chunk, the input with a terminal "?" appended, for it holds the listed
\* word "is"; and a sentence of plain lower-case words gets "?" when one of
\* its words is a listed question word, else "!" when one is a listed
\* exclamatory word, else ".".
C9_PlainScenarioEndsWithQuestionMark ==
    /\ (pc = "chunk_done" /\ transcripts_str = PlainScenario
          /\ max_chars = DefaultMaxChars)
       => chunks = <<Append(PlainScenario, "?")>>
    /\ (pc # "format_call" /\ transcripts_str \in WordTexts
          /\ transcripts_str # <<>>)
       => /\ formatted.raised = ""
          /\ formatted.value # <<>>
          /\ formatted.value[Len(formatted.value)] = MarkByWords(transcripts_str)

\* C9 happens: the scenario was formatted and chunked with the default budget.
C9_Witness ==
    /\ pc = "chunk_done"
    /\ transcripts_str = PlainScenario
    /\ max_chars = DefaultMaxChars
    /\ Len(chunks) = 1

====
